---- MODULE Spec2Model ----
(***************************************************************************)
(* BSDatePicker (src/src/app/bs-date-picker.tsx): a dual-calendar date     *)
(* picker over the Bikram Sambat (BS) and Gregorian (AD) calendars.        *)
(*                                                                         *)
(* A date object is a record [kind, y, m, d]: its class ("Date" or         *)
(* "NepaliDate") and the fields its getters report, the month 0-based.     *)
(* Text is a sequence of tokens: one token per character, except that a    *)
(* month name and an ordinal suffix are one token each.  The Devanagari    *)
(* digit glyphs are written "n0" .. "n9" and the Nepali month names are    *)
(* transliterated.                                                         *)
(* The host time zone is taken to lie east of UTC (Asia/Kathmandu), so     *)
(* that new Date("YYYY-MM-DD") has that same local calendar day.           *)
(***************************************************************************)
EXTENDS Integers, Sequences, FiniteSets, TLC

VARIABLES
    language, format, defaultValue,  \* the props
    selectedDate, currentMonth, isOpen,  \* the component's state
    threw,      \* the constructing render raised an error
    reported,   \* the two dates of the latest onDateChange call, or NULL
    lastOp,     \* the latest operation and its day argument
    sumDelta,   \* the sum of the increments handleMonthChange was given
    notified    \* the onDateChange calls the latest operation made

vars == <<language, format, defaultValue, selectedDate, currentMonth,
          isOpen, threw, reported, lastOp, sumDelta, notified>>

NULL == [kind |-> "null"]

Min(a, b) == IF a <= b THEN a ELSE b

(***************************************************************************)
(* Bounds of the model.                                                    *)
(***************************************************************************)
\* handleMonthChange is explored while the displayed month stays within
\* MaxShift months of the month the picker was constructed with.
MaxShift == 12
\* handleMonthChange called directly: the increments -MaxDelta..MaxDelta and
\* those of the buttons.
MaxDelta == 3
\* Day numbers handed to handleDateSelect: 1..LowDays and EdgeDay..(month end).
LowDays == 1
EdgeDay == 29
\* handleDateSelect called directly: days 0..(month length + Beyond).
Beyond == 1
\* getOrdinalSuffix applied on its own: day numbers 0..MaxOrdinalDay.
MaxOrdinalDay == 99

(***************************************************************************)
(* Gregorian calendar: the arithmetic of the JavaScript Date object.       *)
(***************************************************************************)
IsLeap(y) == (y % 4 = 0) /\ ((y % 100 /= 0) \/ (y % 400 = 0))

AdMonthDays(y, m) ==
    IF m = 1 THEN (IF IsLeap(y) THEN 29 ELSE 28)
    ELSE IF m \in {3, 5, 8, 10} THEN 30 ELSE 31

\* Days from 0001-01-01 to January 1 of year y.
DaysBeforeYear(y) ==
    365 * (y - 1) + ((y - 1) \div 4) - ((y - 1) \div 100) + ((y - 1) \div 400)

RECURSIVE DaysBeforeAdMonth(_, _)
DaysBeforeAdMonth(y, m) ==
    IF m = 0 THEN 0 ELSE DaysBeforeAdMonth(y, m - 1) + AdMonthDays(y, m - 1)

\* Day number of new Date(y, m, d): month and day overflow are carried.
AdDayNum(y, m, d) ==
    LET yy == y + (m \div 12)
        mm == m % 12
    IN  DaysBeforeYear(yy) + DaysBeforeAdMonth(yy, mm) + d - 1

RECURSIVE AdMonthOf(_, _, _)
AdMonthOf(y, m, rest) ==
    IF rest < AdMonthDays(y, m)
    THEN [kind |-> "Date", y |-> y, m |-> m, d |-> rest + 1]
    ELSE AdMonthOf(y, m + 1, rest - AdMonthDays(y, m))

\* The local calendar fields of the Date with day number n.
AdOfDayNum(n) ==
    LET y0 == (n * 400) \div 146097
        y  == CHOOSE c \in y0 .. y0 + 2 :
                 DaysBeforeYear(c) <= n /\ n < DaysBeforeYear(c + 1)
    IN  AdMonthOf(y, 0, n - DaysBeforeYear(y))

\* new Date(year, monthIndex, day)
NewDate(y, m, d) == AdOfDayNum(AdDayNum(y, m, d))

(***************************************************************************)
(* The calendar oracle: nepali-date-converter's NepaliDate.                *)
(***************************************************************************)
\* BS years the converter accepts.
BsMinYear == 2000
BsMaxYear == 2090

\* BS years whose month lengths the model carries.
BsTableYears == {2047, 2080, 2081, 2082, 2083}

BsMonthTable(y) ==
    CASE y = 2047 -> <<31, 31, 32, 32, 31, 30, 30, 29, 30, 29, 30, 30>>
      [] y = 2080 -> <<31, 32, 31, 32, 31, 30, 30, 30, 29, 29, 30, 30>>
      [] y = 2081 -> <<31, 31, 32, 32, 31, 30, 30, 30, 29, 30, 30, 30>>
      [] y = 2082 -> <<30, 32, 31, 32, 31, 30, 30, 30, 29, 30, 30, 30>>
      [] y = 2083 -> <<31, 31, 32, 31, 31, 30, 30, 30, 29, 30, 30, 30>>

\* AD date of Baishakh 1 of BS year y.
BsNewYear(y) ==
    CASE y = 2047 -> [y |-> 1990, m |-> 3, d |-> 14]
      [] y = 2080 -> [y |-> 2023, m |-> 3, d |-> 14]
      [] y = 2081 -> [y |-> 2024, m |-> 3, d |-> 13]
      [] y = 2082 -> [y |-> 2025, m |-> 3, d |-> 14]
      [] y = 2083 -> [y |-> 2026, m |-> 3, d |-> 14]

\* daysInBsMonth(y, m)
BsMonthDays(y, m) == BsMonthTable(y)[m + 1]

RECURSIVE SumBsMonths(_, _)
SumBsMonths(y, m) ==
    IF m = 0 THEN 0 ELSE SumBsMonths(y, m - 1) + BsMonthDays(y, m - 1)

\* The converter's cumulative tables: days of year y before month m, the day
\* number of Baishakh 1, and the length of the year.
BsCumulative == [y \in BsTableYears |-> [m \in 0 .. 12 |-> SumBsMonths(y, m)]]
BsYearStarts ==
    [y \in BsTableYears |-> AdDayNum(BsNewYear(y).y, BsNewYear(y).m, BsNewYear(y).d)]

DaysBeforeBsMonth(y, m) == BsCumulative[y][m]
BsYearStart(y) == BsYearStarts[y]
BsYearLen(y) == BsCumulative[y][12]

\* Day numbers the oracle can convert.
InOracle(n) ==
    \E y \in BsTableYears : BsYearStart(y) <= n /\ n < BsYearStart(y) + BsYearLen(y)

RECURSIVE BsMonthOf(_, _, _)
BsMonthOf(y, m, rest) ==
    IF rest < BsMonthDays(y, m)
    THEN [kind |-> "NepaliDate", y |-> y, m |-> m, d |-> rest + 1]
    ELSE BsMonthOf(y, m + 1, rest - BsMonthDays(y, m))

\* adToBs on day numbers (NepaliDate.setEnglishDate).
BsOfDayNum(n) ==
    LET y == CHOOSE c \in BsTableYears :
                 BsYearStart(c) <= n /\ n < BsYearStart(c) + BsYearLen(c)
    IN  BsMonthOf(y, 0, n - BsYearStart(y))

\* Day number of new NepaliDate(y, m, d) (NepaliDate.set): a month index of
\* 12 or more carries into the year, a day of 0 or past the month end carries
\* into the neighbouring month.
BsDayNum(y, m, d) ==
    LET yy == y + (m \div 12)
        mm == m % 12
    IN  BsYearStart(yy) + DaysBeforeBsMonth(yy, mm) + d - 1

\* new NepaliDate(year, monthIndex, day)
NewNepaliDate(y, m, d) == BsOfDayNum(BsDayNum(y, m, d))

\* nepaliDate.toJsDate() (bsToAd)
ToJsDate(bs) == AdOfDayNum(BsDayNum(bs.y, bs.m, bs.d))

\* new NepaliDate(jsDate) (adToBs)
NepaliDateOfJs(ad) == BsOfDayNum(AdDayNum(ad.y, ad.m, ad.d))

\* new NepaliDate("YYYY-MM-DD") raises an error for a year the converter
\* does not cover; v is the parsed triple with its 1-based month.
NepaliDateStringThrows(v) == v.y < BsMinYear \/ v.y > BsMaxYear

\* new NepaliDate("YYYY-MM-DD")
NepaliDateOfString(v) == NewNepaliDate(v.y, v.m - 1, v.d)

\* new Date("YYYY-MM-DD")
DateOfString(v) == NewDate(v.y, v.m - 1, v.d)

(***************************************************************************)
(* Text.                                                                   *)
(***************************************************************************)
DigitChars == <<"0", "1", "2", "3", "4", "5", "6", "7", "8", "9">>

\* num.toString() for a natural number
RECURSIVE NumToString(_)
NumToString(n) ==
    IF n < 10 THEN <<DigitChars[n + 1]>>
    ELSE NumToString(n \div 10) \o <<DigitChars[(n % 10) + 1]>>

\* parseInt(digit) for one digit character
ParseDigit(c) == CHOOSE k \in 0 .. 9 : DigitChars[k + 1] = c

\* str.padStart(width, fill)
RECURSIVE PadStart(_, _, _)
PadStart(str, width, fill) ==
    IF Len(str) >= width THEN str ELSE PadStart(<<fill>> \o str, width, fill)

MONTH_NAMES ==
    [en |-> <<"January", "February", "March", "April", "May", "June", "July",
              "August", "September", "October", "November", "December">>,
     np |-> <<"Baishakh", "Jestha", "Ashadh", "Shrawan", "Bhadra", "Ashwin",
              "Kartik", "Mangsir", "Poush", "Magh", "Falgun", "Chaitra">>]

\* The abbreviated month names of the en-US locale (month: "short").
SHORT_MONTH_NAMES ==
    <<"Jan", "Feb", "Mar", "Apr", "May", "Jun", "Jul", "Aug", "Sep", "Oct",
      "Nov", "Dec">>

NEPALI_NUMERALS == <<"n0", "n1", "n2", "n3", "n4", "n5", "n6", "n7", "n8", "n9">>

toNepaliNumeral(num) ==
    LET str == NumToString(num)
    IN  [i \in 1 .. Len(str) |-> NEPALI_NUMERALS[ParseDigit(str[i]) + 1]]

\* The ten layouts of the DateFormat type.
DateFormat ==
    {"YYYY/MM/DD", "DD/MM/YYYY", "MM/DD/YYYY", "YYYY-MM-DD", "MM-DD-YYYY",
     "DD-MM-YYYY", "MMM DD, YYYY", "DD MMM YYYY", "MMMM DD, YYYY",
     "DDth MMMM, YYYY"}

\* The remainder operator of JavaScript: the result has the sign of a.
JsRem(a, b) == IF a >= 0 THEN a % b ELSE 0 - ((0 - a) % b)

\* getOrdinalSuffix with a remainder that is never negative.
getOrdinalSuffixFloorMod(day) ==
    LET suffixes == <<"th", "st", "nd", "rd">>
        v == day % 100
        i == (v - 20) % 10
    IN  IF i \in 0 .. 3 THEN suffixes[i + 1]
        ELSE IF v \in 0 .. 3 THEN suffixes[v + 1]
        ELSE suffixes[1]

getOrdinalSuffix(day) ==
    LET suffixes == <<"th", "st", "nd", "rd">>
        v == JsRem(day, 100)
        i == JsRem(v - 20, 10)
    IN  IF i \in 0 .. 3 THEN suffixes[i + 1]
        ELSE IF v \in 0 .. 3 THEN suffixes[v + 1]
        ELSE suffixes[1]

\* FormatOrDefault falling back to another layout.
FormatOrSlashDefault(table, fmt) ==
    IF fmt \in DOMAIN table THEN table[fmt] ELSE table["YYYY/MM/DD"]

\* formats[format] || formats["YYYY-MM-DD"]: a key the table lacks reads as
\* undefined, and every entry of the table is a non-empty string.
FormatOrDefault(table, fmt) ==
    IF fmt \in DOMAIN table THEN table[fmt] ELSE table["YYYY-MM-DD"]

\* date.toLocaleDateString("en-US", {month, day: "2-digit", year: "numeric"}):
\* the options select the fields, the locale fixes their order.
LocaleMonthDayYear(date, names) ==
    <<names[date.m + 1], " ">> \o PadStart(NumToString(date.d), 2, "0")
        \o <<",", " ">> \o NumToString(date.y)

formatGregorianDate(date, fmt) ==
    LET month == PadStart(NumToString(date.m + 1), 2, "0")
        day   == PadStart(NumToString(date.d), 2, "0")
        year  == NumToString(date.y)
        formats ==
          [f \in DateFormat |->
            CASE f = "MM/DD/YYYY" -> month \o <<"/">> \o day \o <<"/">> \o year
              [] f = "DD/MM/YYYY" -> day \o <<"/">> \o month \o <<"/">> \o year
              [] f = "YYYY/MM/DD" -> year \o <<"/">> \o month \o <<"/">> \o day
              [] f = "YYYY-MM-DD" -> year \o <<"-">> \o month \o <<"-">> \o day
              [] f = "MM-DD-YYYY" -> month \o <<"-">> \o day \o <<"-">> \o year
              [] f = "DD-MM-YYYY" -> day \o <<"-">> \o month \o <<"-">> \o year
              [] f = "MMM DD, YYYY" -> LocaleMonthDayYear(date, SHORT_MONTH_NAMES)
              [] f = "DD MMM YYYY" -> LocaleMonthDayYear(date, SHORT_MONTH_NAMES)
              [] f = "MMMM DD, YYYY" -> LocaleMonthDayYear(date, MONTH_NAMES.en)
              [] f = "DDth MMMM, YYYY" ->
                   NumToString(date.d) \o <<getOrdinalSuffix(date.d), " ">>
                     \o <<MONTH_NAMES.en[date.m + 1], ",", " ">> \o year]
    IN  FormatOrDefault(formats, fmt)

formatNepaliDate(year, month, day, fmt) ==
    LET nepaliYear  == PadStart(toNepaliNumeral(year), 2, "n0")
        nepaliMonth == PadStart(toNepaliNumeral(month), 2, "n0")
        nepaliDay   == PadStart(toNepaliNumeral(day), 2, "n0")
        monthName   == <<MONTH_NAMES.np[month + 1]>>
        ordinalDay  == nepaliDay \o <<getOrdinalSuffix(day)>>
        options ==
          [f \in DateFormat |->
            CASE f = "YYYY/MM/DD" ->
                   nepaliYear \o <<"/">> \o nepaliMonth \o <<"/">> \o nepaliDay
              [] f = "DD/MM/YYYY" ->
                   nepaliDay \o <<"/">> \o nepaliMonth \o <<"/">> \o nepaliYear
              [] f = "MM/DD/YYYY" ->
                   nepaliMonth \o <<"/">> \o nepaliDay \o <<"/">> \o nepaliYear
              [] f = "YYYY-MM-DD" ->
                   nepaliYear \o <<"-">> \o nepaliMonth \o <<"-">> \o nepaliDay
              [] f = "MM-DD-YYYY" ->
                   nepaliMonth \o <<"-">> \o nepaliDay \o <<"-">> \o nepaliYear
              [] f = "DD-MM-YYYY" ->
                   nepaliDay \o <<"-">> \o nepaliMonth \o <<"-">> \o nepaliYear
              [] f = "MMM DD, YYYY" ->
                   monthName \o <<" ">> \o nepaliDay \o <<",", " ">> \o nepaliYear
              [] f = "DD MMM YYYY" ->
                   nepaliDay \o <<" ">> \o monthName \o <<" ">> \o nepaliYear
              [] f = "MMMM DD, YYYY" ->
                   monthName \o <<" ">> \o nepaliDay \o <<",", " ">> \o nepaliYear
              [] f = "DDth MMMM, YYYY" ->
                   ordinalDay \o <<" ">> \o monthName \o <<",", " ">> \o nepaliYear]
    IN  FormatOrDefault(options, fmt)

formatDate(date, lang, fmt) ==
    IF date = NULL THEN <<>>
    ELSE IF lang = "en"
    THEN formatGregorianDate(IF date.kind = "Date" THEN date ELSE ToJsDate(date),
                             fmt)
    ELSE LET nepaliYear == IF date.kind = "NepaliDate" THEN date.y
                           ELSE NepaliDateOfJs(date).y
         IN  formatNepaliDate(nepaliYear, date.m, date.d, fmt)

(***************************************************************************)
(* The header's secondary labels.                                          *)
(***************************************************************************)
\* getGregorianMonthRange probing the month after the next one, as
\* getNepaliMonthRange does.
getGregorianMonthRangePlusTwo(nepaliMonth) ==
    LET firstDay == NewNepaliDate(nepaliMonth.y, nepaliMonth.m, 1)
        lastDay  == NewNepaliDate(nepaliMonth.y, nepaliMonth.m + 2, 0)
        firstGregorianMonth == SHORT_MONTH_NAMES[ToJsDate(firstDay).m + 1]
        lastGregorianMonth  == SHORT_MONTH_NAMES[ToJsDate(lastDay).m + 1]
    IN  IF firstGregorianMonth = lastGregorianMonth
        THEN <<firstGregorianMonth>>
        ELSE <<firstGregorianMonth, "/", lastGregorianMonth>>

getGregorianMonthRange(nepaliMonth) ==
    LET firstDay == NewNepaliDate(nepaliMonth.y, nepaliMonth.m, 1)
        lastDay  == NewNepaliDate(nepaliMonth.y, nepaliMonth.m + 1, 0)
        firstGregorianMonth == SHORT_MONTH_NAMES[ToJsDate(firstDay).m + 1]
        lastGregorianMonth  == SHORT_MONTH_NAMES[ToJsDate(lastDay).m + 1]
    IN  IF firstGregorianMonth = lastGregorianMonth
        THEN <<firstGregorianMonth>>
        ELSE <<firstGregorianMonth, "/", lastGregorianMonth>>

getGregorianYearRange(nepaliMonth) ==
    LET firstDay == NewNepaliDate(nepaliMonth.y, nepaliMonth.m, 1)
        lastDay  == NewNepaliDate(nepaliMonth.y, nepaliMonth.m + 1, 0)
        firstGregorianYear == ToJsDate(firstDay).y
        lastGregorianYear  == ToJsDate(lastDay).y
    IN  IF firstGregorianYear = lastGregorianYear
        THEN NumToString(firstGregorianYear)
        ELSE NumToString(firstGregorianYear) \o <<"-">>
               \o NumToString(lastGregorianYear)

getNepaliMonthRange(date) ==
    LET firstDay == NewNepaliDate(date.y, date.m, 1)
        lastDay  == NewNepaliDate(date.y, date.m + 2, 0)
        firstNepaliMonth == firstDay.m
        lastNepaliMonth  == lastDay.m
    IN  IF firstNepaliMonth = lastNepaliMonth
        THEN <<MONTH_NAMES.np[firstNepaliMonth + 1]>>
        ELSE <<MONTH_NAMES.np[firstNepaliMonth + 1], "/",
               MONTH_NAMES.np[lastNepaliMonth + 1]>>

getNepaliYearRange(date) ==
    LET firstDay == NewNepaliDate(date.y, date.m, 1)
        lastDay  == NewNepaliDate(date.y, date.m + 2, 0)
        firstNepaliYear == firstDay.y
        lastNepaliYear  == lastDay.y
    IN  IF firstNepaliYear = lastNepaliYear
        THEN toNepaliNumeral(firstNepaliYear)
        ELSE toNepaliNumeral(firstNepaliYear) \o <<"-">>
               \o toNepaliNumeral(lastNepaliYear)

\* The second line of the popover header: month label and year label.
HeaderSecondary(lang, month) ==
    IF lang = "np"
    THEN [month |-> getGregorianMonthRange(month.nepali),
          year  |-> getGregorianYearRange(month.nepali)]
    ELSE [month |-> getNepaliMonthRange(month.nepali),
          year  |-> getNepaliYearRange(month.nepali)]

\* The number of day buttons the grid renders.
GridLength(lang, month) ==
    IF lang = "np"
    THEN NewNepaliDate(month.nepali.y, month.nepali.m + 1, 0).d
    ELSE NewDate(month.gregorian.y, month.gregorian.m + 1, 0).d

(***************************************************************************)
(* Construction.                                                           *)
(***************************************************************************)
Languages == {"np", "en"}

\* The format prop: the ten layouts, and strings outside the DateFormat type.
UnknownFormats == {"YYYY.MM.DD", "DD.MM.YYYY"}
FormatProps == DateFormat \cup UnknownFormats

\* The defaultValue prop as its parsed triple (month 1-based, as written).
DefaultValues(lang) ==
    IF lang = "np"
    THEN {[y |-> 2081, m |-> 9, d |-> 17]}
    ELSE {[y |-> 2025, m |-> 1, d |-> 1], [y |-> 2025, m |-> 1, d |-> 31],
          [y |-> 1990, m |-> 6, d |-> 15]}

\* Further default values, for the picker that is not navigated.
MoreDefaultValues(lang) ==
    IF lang = "np"
    THEN {[y |-> 2081, m |-> 1, d |-> 1], [y |-> 2080, m |-> 12, d |-> 30],
          [y |-> 2082, m |-> 10, d |-> 5]}
    ELSE {[y |-> 2024, m |-> 2, d |-> 29], [y |-> 2025, m |-> 12, d |-> 11]}

\* The format prop of the two pickers of the page.
PageFormats == {"YYYY/MM/DD"}

\* new Date() on the day the picker is constructed.
Today == NewDate(2025, 0, 30)

\* The render that constructs the component raises an error.
ConstructThrows(lang, dv) == dv /= NULL /\ NepaliDateStringThrows(dv)

InitialSelectedDate(lang, dv) ==
    IF dv = NULL THEN NULL
    ELSE IF lang = "np" THEN NepaliDateOfString(dv) ELSE DateOfString(dv)

InitialCurrentMonth(lang, dv) ==
    IF dv /= NULL
    THEN [nepali    |-> IF lang = "np" THEN NepaliDateOfString(dv)
                        ELSE NepaliDateOfJs(DateOfString(dv)),
          gregorian |-> IF lang = "en" THEN DateOfString(dv)
                        ELSE ToJsDate(NepaliDateOfString(dv))]
    ELSE [nepali    |-> NepaliDateOfJs(Today),
          gregorian |-> IF lang = "en" THEN Today
                        ELSE ToJsDate(NepaliDateOfJs(Today))]

Construct(lang, fmt, dv) ==
        /\ language = lang
        /\ format = fmt
        /\ defaultValue = dv
        /\ threw = ConstructThrows(lang, dv)
        /\ selectedDate =
             IF ConstructThrows(lang, dv) THEN NULL ELSE InitialSelectedDate(lang, dv)
        /\ currentMonth =
             IF ConstructThrows(lang, dv) THEN NULL ELSE InitialCurrentMonth(lang, dv)
        /\ isOpen = FALSE
        /\ reported = NULL
        /\ lastOp = [op |-> "init", arg |-> 0]
        /\ sumDelta = 0
        /\ notified = 0

Init ==
    \E lang \in Languages, fmt \in PageFormats :
      \E dv \in DefaultValues(lang) \cup {NULL} : Construct(lang, fmt, dv)

\* Construction with any format prop.
InitFormat ==
    \E lang \in Languages, fmt \in FormatProps :
      \E dv \in DefaultValues(lang) \cup MoreDefaultValues(lang) \cup {NULL} :
        Construct(lang, fmt, dv)

(***************************************************************************)
(* handleMonthChange.                                                      *)
(***************************************************************************)
\* Math.floor(a / 12)
FloorDiv12(a) == a \div 12

\* Math.trunc(a / 12): rounds towards zero.
TruncDiv12(a) == IF a >= 0 THEN a \div 12 ELSE 0 - ((0 - a) \div 12)

\* newNepali borrowing the year with a division that rounds towards zero.
newNepaliTruncated(prevMonth, increment) ==
    LET m0 == prevMonth.nepali.m + increment
    IN  IF m0 > 11
        THEN [year  |-> prevMonth.nepali.y + FloorDiv12(m0),
              month |-> JsRem(m0, 12)]
        ELSE IF m0 < 0
        THEN [year  |-> prevMonth.nepali.y + TruncDiv12(m0),
              month |-> JsRem(JsRem(m0, 12) + 12, 12)]
        ELSE [year |-> prevMonth.nepali.y, month |-> m0]

\* The new Nepali year and month.
newNepali(prevMonth, increment) ==
    LET m0 == prevMonth.nepali.m + increment
    IN  IF m0 > 11
        THEN [year  |-> prevMonth.nepali.y + FloorDiv12(m0),
              month |-> JsRem(m0, 12)]
        ELSE IF m0 < 0
        THEN [year  |-> prevMonth.nepali.y + FloorDiv12(m0),
              month |-> JsRem(JsRem(m0, 12) + 12, 12)]
        ELSE [year |-> prevMonth.nepali.y, month |-> m0]

\* currentDay counting from 0 when nothing is selected.
currentDayFromZero(lang, selected) == IF selected = NULL THEN 0 ELSE selected.d

currentDay(lang, selected) == IF selected = NULL THEN 1 ELSE selected.d

maxNepaliDay(newNepaliYear, newNepaliMonth) ==
    NewNepaliDate(newNepaliYear, newNepaliMonth + 1, 0).d

newGregorianDate(prevMonth, increment) ==
    NewDate(prevMonth.gregorian.y, prevMonth.gregorian.m + increment, 1)

maxGregorianDay(newGregorian) == NewDate(newGregorian.y, newGregorian.m + 1, 0).d

\* adjustedDay without the clamp.
adjustedDayUnclamped(day, maxDay) == day

\* Math.min(currentDay, max...)
adjustedDay(day, maxDay) == Min(day, maxDay)

updatedNepaliDate(prevMonth, lang, selected, increment) ==
    LET n == newNepali(prevMonth, increment)
    IN  NewNepaliDate(n.year, n.month,
                      adjustedDay(currentDay(lang, selected),
                                  maxNepaliDay(n.year, n.month)))

updatedGregorianDate(prevMonth, lang, selected, increment) ==
    LET g == newGregorianDate(prevMonth, increment)
    IN  NewDate(g.y, g.m,
                adjustedDay(currentDay(lang, selected), maxGregorianDay(g)))

Abs(a) == IF a < 0 THEN 0 - a ELSE a

\* handleMonthChange reporting the new dates through onDateChange as well.
handleMonthChangeNotifying(increment) ==
    /\ ~threw
    /\ Abs(sumDelta + increment) <= MaxShift
    /\ currentMonth' =
         [nepali    |-> updatedNepaliDate(currentMonth, language, selectedDate, increment),
          gregorian |-> updatedGregorianDate(currentMonth, language, selectedDate, increment)]
    /\ selectedDate' = IF language = "np" THEN currentMonth'.nepali
                       ELSE currentMonth'.gregorian
    /\ reported' = [gregorianDate |-> currentMonth'.gregorian,
                    nepaliDate    |-> currentMonth'.nepali]
    /\ lastOp' = [op |-> "advance", arg |-> 0]
    /\ sumDelta' = sumDelta + increment
    /\ notified' = 1
    /\ UNCHANGED <<language, format, defaultValue, isOpen, threw>>

handleMonthChange(increment) ==
    /\ ~threw
    /\ Abs(sumDelta + increment) <= MaxShift
    /\ currentMonth' =
         [nepali    |-> updatedNepaliDate(currentMonth, language, selectedDate, increment),
          gregorian |-> updatedGregorianDate(currentMonth, language, selectedDate, increment)]
    /\ selectedDate' = IF language = "np" THEN currentMonth'.nepali
                       ELSE currentMonth'.gregorian
    /\ lastOp' = [op |-> "advance", arg |-> 0]
    /\ sumDelta' = sumDelta + increment
    /\ notified' = 0
    /\ UNCHANGED <<language, format, defaultValue, isOpen, threw, reported>>

(***************************************************************************)
(* handleDateSelect.                                                       *)
(***************************************************************************)
selectNepaliDate(month, day) == NewNepaliDate(month.nepali.y, month.nepali.m, day)

\* selectGregorianDate taking the month index from the Nepali anchor.
selectGregorianDateNepaliMonth(month, day) ==
    NewDate(month.gregorian.y, month.nepali.m, day)

selectGregorianDate(month, day) == NewDate(month.gregorian.y, month.gregorian.m, day)

\* The argument handed to onDateChange for the two new date objects.
onDateChangeArg(gregorianDate, nepaliDate, fmt) ==
    [english |-> formatDate(gregorianDate, "en", fmt),
     nepali  |-> formatDate(nepaliDate, "np", fmt)]

\* handleDateSelect moving the month anchor to the two new dates as well.
handleDateSelectMovingAnchor(day) ==
    /\ ~threw
    /\ selectedDate' = IF language = "np" THEN selectNepaliDate(currentMonth, day)
                       ELSE selectGregorianDate(currentMonth, day)
    /\ currentMonth' = [nepali    |-> selectNepaliDate(currentMonth, day),
                        gregorian |-> selectGregorianDate(currentMonth, day)]
    /\ reported' = [gregorianDate |-> selectGregorianDate(currentMonth, day),
                    nepaliDate    |-> selectNepaliDate(currentMonth, day)]
    /\ isOpen' = FALSE
    /\ lastOp' = [op |-> "select", arg |-> day]
    /\ notified' = 1
    /\ UNCHANGED <<language, format, defaultValue, threw, sumDelta>>

handleDateSelect(day) ==
    /\ ~threw
    /\ selectedDate' = IF language = "np" THEN selectNepaliDate(currentMonth, day)
                       ELSE selectGregorianDate(currentMonth, day)
    /\ reported' = [gregorianDate |-> selectGregorianDate(currentMonth, day),
                    nepaliDate    |-> selectNepaliDate(currentMonth, day)]
    /\ isOpen' = FALSE
    /\ lastOp' = [op |-> "select", arg |-> day]
    /\ notified' = 1
    /\ UNCHANGED <<language, format, defaultValue, currentMonth, threw, sumDelta>>

\* The popover's onOpenChange: setIsOpen.
onOpenChange ==
    /\ ~threw
    /\ isOpen' = ~isOpen
    /\ lastOp' = [op |-> "open", arg |-> 0]
    /\ notified' = 0
    /\ UNCHANGED <<language, format, defaultValue, selectedDate, currentMonth,
                   threw, reported, sumDelta>>

\* The latest argument of onDateChange.
Reported ==
    IF reported = NULL THEN NULL
    ELSE onDateChangeArg(reported.gregorianDate, reported.nepaliDate, format)

\* The value of the input field.
InputValue ==
    IF selectedDate /= NULL THEN formatDate(selectedDate, language, format) ELSE <<>>

(***************************************************************************)
(* Specifications.                                                         *)
(***************************************************************************)
\* The day numbers explored among lo..hi.
SampleDays(lo, hi) == {d \in lo .. hi : d <= LowDays \/ d >= EdgeDay}

\* The increments of the four header buttons.
ButtonIncrements == {-12, -1, 1, 12}

\* The picker as the user drives it: the buttons of the open popover.
ClickMonthButton == isOpen /\ \E inc \in ButtonIncrements : handleMonthChange(inc)

ClickDayButton ==
    /\ ~threw
    /\ isOpen
    /\ \E day \in SampleDays(1, GridLength(language, currentMonth)) :
         handleDateSelect(day)

Next == ClickMonthButton \/ ClickDayButton \/ onOpenChange

Spec == Init /\ [][Next]_vars

\* The handlers called directly, with any increment and any day number.
CallMonthChange ==
    \E inc \in ((0 - MaxDelta) .. MaxDelta) \cup ButtonIncrements :
      handleMonthChange(inc)

CallDateSelect ==
    /\ ~threw
    /\ \E day \in SampleDays(0, GridLength(language, currentMonth) + Beyond) :
         handleDateSelect(day)

NextApi == CallMonthChange \/ CallDateSelect

SpecApi == Init /\ [][NextApi]_vars

\* The picker with any format prop, opened and clicked but not navigated.
NextFormat == ClickDayButton \/ onOpenChange

SpecFormat == InitFormat /\ [][NextFormat]_vars

\* getOrdinalSuffix on its own: lastOp holds the day number it is called
\* with, reported the suffix it returned.
InitOrdinal ==
    /\ language = "en"
    /\ format = "DDth MMMM, YYYY"
    /\ defaultValue = NULL
    /\ selectedDate = NULL
    /\ currentMonth = NULL
    /\ isOpen = FALSE
    /\ threw = FALSE
    /\ reported = NULL
    /\ \E day \in 0 .. MaxOrdinalDay : lastOp = [op |-> "suffix", arg |-> day]
    /\ sumDelta = 0
    /\ notified = 0

CallOrdinalSuffix ==
    /\ lastOp.op = "suffix"
    /\ reported = NULL
    /\ reported' = [suffix |-> getOrdinalSuffix(lastOp.arg)]
    /\ UNCHANGED <<language, format, defaultValue, selectedDate, currentMonth,
                   isOpen, threw, lastOp, sumDelta, notified>>

NextOrdinal == CallOrdinalSuffix

SpecOrdinal == InitOrdinal /\ [][NextOrdinal]_vars

(***************************************************************************)
(* Properties.                                                             *)
(***************************************************************************)
MonthIndex(date) == date.y * 12 + date.m

\* The month anchor of the primary calendar and the length of its month.
PrimaryAnchor == IF language = "np" THEN currentMonth.nepali ELSE currentMonth.gregorian
DaysInMonth(lang, y, m) == IF lang = "np" THEN BsMonthDays(y, m) ELSE AdMonthDays(y, m)
PrimaryDayNum(y, m, d) == IF language = "np" THEN BsDayNum(y, m, d) ELSE AdDayNum(y, m, d)

\* The day number a date object denotes.
DayNumOf(date) ==
    IF date.kind = "NepaliDate" THEN BsDayNum(date.y, date.m, date.d)
    ELSE AdDayNum(date.y, date.m, date.d)

\* C1: after selectDay(d), the English and the Nepali value handed to
\* onDateChange denote one and the same day, the primary-calendar day
\* (anchorYear, anchorMonth, d).
C1_ReportedPairIsOneDay ==
    lastOp.op = "select" =>
      /\ reported /= NULL
      /\ DayNumOf(reported.gregorianDate)
           = PrimaryDayNum(PrimaryAnchor.y, PrimaryAnchor.m, lastOp.arg)
      /\ DayNumOf(reported.nepaliDate)
           = PrimaryDayNum(PrimaryAnchor.y, PrimaryAnchor.m, lastOp.arg)

\* The six numeric layouts and their arrangement of year, month and day.
NumericFormats ==
    {"YYYY/MM/DD", "DD/MM/YYYY", "MM/DD/YYYY", "YYYY-MM-DD", "MM-DD-YYYY",
     "DD-MM-YYYY"}

NumericLayout(fmt, yy, mm, dd) ==
    CASE fmt = "YYYY/MM/DD" -> yy \o <<"/">> \o mm \o <<"/">> \o dd
      [] fmt = "DD/MM/YYYY" -> dd \o <<"/">> \o mm \o <<"/">> \o yy
      [] fmt = "MM/DD/YYYY" -> mm \o <<"/">> \o dd \o <<"/">> \o yy
      [] fmt = "YYYY-MM-DD" -> yy \o <<"-">> \o mm \o <<"-">> \o dd
      [] fmt = "MM-DD-YYYY" -> mm \o <<"-">> \o dd \o <<"-">> \o yy
      [] fmt = "DD-MM-YYYY" -> dd \o <<"-">> \o mm \o <<"-">> \o yy

\* A number zero-padded to two digits, in Devanagari numerals.
Devanagari2(n) ==
    LET str == PadStart(NumToString(n), 2, "0")
    IN  [i \in 1 .. Len(str) |-> NEPALI_NUMERALS[ParseDigit(str[i]) + 1]]

\* C2: for language np and a numeric template, the formatted selected date
\* shows the month as the 1-based BS month number (month index + 1),
\* zero-padded to two digits, in Devanagari numerals.
C2_NepaliMonthIsOneBased ==
    (language = "np" /\ selectedDate /= NULL /\ format \in NumericFormats) =>
      InputValue = NumericLayout(format, Devanagari2(selectedDate.y),
                                 Devanagari2(selectedDate.m + 1),
                                 Devanagari2(selectedDate.d))

\* A label over two endpoint values: one value when they agree, else both.
RangeLabel(first, last, sep) ==
    IF first = last THEN first ELSE first \o <<sep>> \o last

\* The BS month and year labels of the displayed AD month, from the oracle
\* conversions of its first and its last day.
NepaliLabelsOfAdMonth(gregorian) ==
    LET first == NepaliDateOfJs(NewDate(gregorian.y, gregorian.m, 1))
        last  == NepaliDateOfJs(NewDate(gregorian.y, gregorian.m,
                                        AdMonthDays(gregorian.y, gregorian.m)))
    IN  [month |-> RangeLabel(<<MONTH_NAMES.np[first.m + 1]>>,
                              <<MONTH_NAMES.np[last.m + 1]>>, "/"),
         year  |-> RangeLabel(toNepaliNumeral(first.y), toNepaliNumeral(last.y), "-")]

\* C3: for language en, the header's secondary BS month and year labels are
\* those of the conversions of the first and the last day of the displayed AD
\* month.
C3_NepaliLabelsFollowAdMonth ==
    (language = "en" /\ ~threw) =>
      HeaderSecondary(language, currentMonth)
        = NepaliLabelsOfAdMonth(currentMonth.gregorian)

\* C4: the BS and the AD date held as the month anchor denote the same day.
C4_AnchorPairIsOneDay ==
    ~threw => DayNumOf(currentMonth.nepali) = DayNumOf(currentMonth.gregorian)

\* A default value that is a date of the primary calendar within the
\* oracle's range.
ValidInPrimary(lang, v) ==
    /\ v.m \in 1 .. 12
    /\ IF lang = "np"
       THEN v.y \in BsTableYears /\ v.d \in 1 .. BsMonthDays(v.y, v.m - 1)
       ELSE /\ v.d \in 1 .. AdMonthDays(v.y, v.m - 1)
            /\ InOracle(AdDayNum(v.y, v.m - 1, v.d))

PrimaryDateOf(lang, v) ==
    [kind |-> IF lang = "np" THEN "NepaliDate" ELSE "Date",
     y |-> v.y, m |-> v.m - 1, d |-> v.d]

\* C5: init(value, language) reads value as a date of the primary calendar
\* only: it succeeds for every such date in the oracle's range, with the
\* selected date and the primary anchor equal to it and the other anchor
\* equal to its conversion.
C5_InitReadsPrimaryCalendarOnly ==
    (lastOp.op = "init" /\ defaultValue /= NULL
       /\ ValidInPrimary(language, defaultValue)) =>
      /\ ~threw
      /\ selectedDate = PrimaryDateOf(language, defaultValue)
      /\ PrimaryAnchor = PrimaryDateOf(language, defaultValue)
      /\ DayNumOf(currentMonth.nepali) = DayNumOf(currentMonth.gregorian)

\* C6: selectDay(d) with d outside 1..daysInMonth(primary anchor month) is
\* rejected: the selected date and the anchor stay as they were and nothing
\* is reported.
C6_DayOutOfRangeRejected ==
    [][(lastOp'.op = "select"
          /\ lastOp'.arg \notin 1 .. DaysInMonth(language, PrimaryAnchor.y,
                                                 PrimaryAnchor.m))
        => (selectedDate' = selectedDate /\ currentMonth' = currentMonth
              /\ reported' = reported)]_vars

\* C7: in each calendar the anchor's month index (year * 12 + month) has
\* changed by exactly the sum of the increments, and the month is in 0..11.
C7_MonthIndexFollowsSum ==
    ~threw =>
      LET initial == InitialCurrentMonth(language, defaultValue)
      IN  /\ MonthIndex(currentMonth.nepali)
               = MonthIndex(initial.nepali) + sumDelta
          /\ MonthIndex(currentMonth.gregorian)
               = MonthIndex(initial.gregorian) + sumDelta
          /\ currentMonth.nepali.m \in 0 .. 11
          /\ currentMonth.gregorian.m \in 0 .. 11

\* Increments summing to -12 have led to the same month one year earlier in
\* both calendars.
C7_Witness ==
    /\ ~threw
    /\ lastOp.op = "advance"
    /\ sumDelta = -12
    /\ currentMonth.nepali.m = InitialCurrentMonth(language, defaultValue).nepali.m
    /\ currentMonth.nepali.y = InitialCurrentMonth(language, defaultValue).nepali.y - 1
    /\ currentMonth.gregorian.m
         = InitialCurrentMonth(language, defaultValue).gregorian.m
    /\ currentMonth.gregorian.y
         = InitialCurrentMonth(language, defaultValue).gregorian.y - 1

\* C8: after every advance the selected date is the primary-calendar date of
\* the new month with the day min(d, daysInMonth(new month)), d being the day
\* selected before (1 if none).
C8_AdvanceClampsDay ==
    [][lastOp'.op = "advance" =>
        LET idx == MonthIndex(PrimaryAnchor) + (sumDelta' - sumDelta)
            y   == idx \div 12
            m   == idx % 12
            d   == IF selectedDate = NULL THEN 1 ELSE selectedDate.d
        IN  selectedDate'
              = [kind |-> IF language = "np" THEN "NepaliDate" ELSE "Date",
                 y |-> y, m |-> m, d |-> Min(d, DaysInMonth(language, y, m))]]_vars

\* An advance has left the last day of a month shorter than every day number
\* the grid offers for selection beyond the first ones: the day was clamped.
C8_Witness ==
    /\ lastOp.op = "advance"
    /\ selectedDate /= NULL
    /\ selectedDate.d > LowDays
    /\ selectedDate.d < EdgeDay
    /\ selectedDate.d = DaysInMonth(language, selectedDate.y, selectedDate.m)

\* The Gregorian month and year labels of the displayed BS month, from the
\* oracle conversions of its first and its last day.
GregorianLabelsOfBsMonth(nepali) ==
    LET first == ToJsDate([kind |-> "NepaliDate", y |-> nepali.y, m |-> nepali.m,
                           d |-> 1])
        last  == ToJsDate([kind |-> "NepaliDate", y |-> nepali.y, m |-> nepali.m,
                           d |-> BsMonthDays(nepali.y, nepali.m)])
    IN  [month |-> RangeLabel(<<SHORT_MONTH_NAMES[first.m + 1]>>,
                              <<SHORT_MONTH_NAMES[last.m + 1]>>, "/"),
         year  |-> RangeLabel(NumToString(first.y), NumToString(last.y), "-")]

\* C9: for language np, the header's secondary Gregorian month and year
\* labels are those of the conversions of the first and the last day of the
\* displayed BS month: one value when they agree, else "A/B" and "A-B".
C9_GregorianLabelsFollowBsMonth ==
    (language = "np" /\ ~threw) =>
      HeaderSecondary(language, currentMonth)
        = GregorianLabelsOfBsMonth(currentMonth.nepali)

\* After an advance the displayed BS month spans two Gregorian years: the
\* month label is "A/B" and the year label "A-B".
C9_Witness ==
    /\ language = "np"
    /\ ~threw
    /\ lastOp.op = "advance"
    /\ Len(HeaderSecondary(language, currentMonth).month) = 3
    /\ Len(HeaderSecondary(language, currentMonth).year) = 9

OrdinalRule(day) ==
    IF day % 100 \in {11, 12, 13} THEN "th"
    ELSE IF day % 10 = 1 THEN "st"
    ELSE IF day % 10 = 2 THEN "nd"
    ELSE IF day % 10 = 3 THEN "rd"
    ELSE "th"

\* C11: getOrdinalSuffix(day) is "th" when day % 100 is 11, 12 or 13,
\* otherwise "st", "nd", "rd" for a last digit of 1, 2, 3, and "th" in all
\* other cases.
C11_OrdinalSuffixRule ==
    (lastOp.op = "suffix" /\ reported /= NULL) =>
      reported.suffix = OrdinalRule(lastOp.arg)

\* The suffix of day 11 was computed: (11 - 20) % 10 is negative in
\* JavaScript and indexes nothing.
C11_Witness ==
    /\ lastOp = [op |-> "suffix", arg |-> 11]
    /\ reported /= NULL
    /\ reported.suffix = "th"
    /\ JsRem(11 - 20, 10) < 0

\* C12: selectDay(d) leaves the month anchor of both calendars as it was; it
\* replaces the selected date and closes the popover.
C12_SelectKeepsAnchor ==
    [][lastOp'.op = "select" =>
        /\ currentMonth' = currentMonth
        /\ sumDelta' = sumDelta
        /\ isOpen' = FALSE
        /\ selectedDate' /= NULL]_vars

\* A day other than the anchor's was selected in a month navigated to, and
\* the popover is closed.
C12_Witness ==
    /\ lastOp.op = "select"
    /\ sumDelta /= 0
    /\ ~isOpen
    /\ selectedDate.d /= PrimaryAnchor.d

\* C13: a selected date is a date of the primary calendar in the year and
\* month of the primary anchor.
C13_SelectedInDisplayedMonth ==
    (~threw /\ selectedDate /= NULL) =>
      /\ selectedDate.kind = (IF language = "np" THEN "NepaliDate" ELSE "Date")
      /\ selectedDate.y = PrimaryAnchor.y
      /\ selectedDate.m = PrimaryAnchor.m

\* The last day button of a month navigated to was clicked, while the two
\* anchors hold different month indices.
C13_Witness ==
    /\ lastOp.op = "select"
    /\ sumDelta /= 0
    /\ lastOp.arg = GridLength(language, currentMonth)
    /\ selectedDate.d = lastOp.arg
    /\ currentMonth.nepali.m /= currentMonth.gregorian.m

\* C14: onDateChange is called once by every selectDay and not at all by
\* init, advance or the popover; an operation other than selectDay leaves
\* the latest reported value as it was.
C14_ReportedOnlyOnSelect ==
    /\ (notified = 0 /\ reported = NULL)
    /\ [][/\ notified' = (IF lastOp'.op = "select" THEN 1 ELSE 0)
          /\ lastOp'.op /= "select" => reported' = reported]_vars

\* After an advance the latest reported pair holds neither calendar's form
\* of the date the input shows.
C14_Witness ==
    /\ lastOp.op = "advance"
    /\ notified = 0
    /\ reported /= NULL
    /\ selectedDate /= reported.gregorianDate
    /\ selectedDate /= reported.nepaliDate
    /\ DayNumOf(selectedDate) /= DayNumOf(reported.gregorianDate)
    /\ DayNumOf(selectedDate) /= DayNumOf(reported.nepaliDate)

\* C15: advance always leaves a selected date, day 1 of the new primary month
\* when nothing was selected before, and no operation takes a selection away.
C15_AdvanceAlwaysSelects ==
    [][/\ lastOp'.op = "advance" =>
            /\ selectedDate' /= NULL
            /\ selectedDate = NULL =>
                 LET idx == MonthIndex(PrimaryAnchor) + (sumDelta' - sumDelta)
                 IN  /\ selectedDate'.d = 1
                     /\ MonthIndex(selectedDate') = idx
       /\ selectedDate /= NULL => selectedDate' /= NULL]_vars

\* handleMonthChange(0) on a picker without a selection has selected day 1
\* of the month displayed.
C15_Witness ==
    /\ defaultValue = NULL
    /\ lastOp.op = "advance"
    /\ sumDelta = 0
    /\ reported = NULL
    /\ selectedDate /= NULL
    /\ selectedDate.d = 1
    /\ MonthIndex(selectedDate)
         = MonthIndex(IF language = "np"
                      THEN InitialCurrentMonth(language, defaultValue).nepali
                      ELSE InitialCurrentMonth(language, defaultValue).gregorian)
====
